---- MODULE Spec2Model ----
(***************************************************************************)
(* Model of mcp-nano-banana: the Gemini endpoint client (client.ts), the   *)
(* response extractor, the tool result helpers and the four tool handlers  *)
(* (generate_image, edit_image, compose_images, describe_image).           *)
(*                                                                         *)
(* JavaScript objects are records whose DOMAIN is the set of fields that   *)
(* are present; `undefined` is a missing field, JSON null is NullValue.    *)
(* Strings are TLA+ strings, so template literals and join("\n") are       *)
(* computed with \o.                                                       *)
(***************************************************************************)
EXTENDS Integers, Sequences, FiniteSets, TLC

VARIABLES
    pc,         \* pc[p]: position of invocation p
    tool,       \* tool[p]: name of the tool invocation p calls
    raw,        \* raw[p]: the arguments as received, before schema validation
    args,       \* args[p]: the arguments the handler body receives (parsed)
    reads,      \* reads[p]: input files read by readImageAsBase64 for p
    http,       \* http[p]: the HTTP response fetch resolved with, if any
    gc,         \* gc[p]: how generateContent ended (return / throw)
    ex,         \* ex[p]: how extractResult ended (return / throw)
    caught,     \* caught[p]: the exception the handler's catch clause received
    envelope,   \* envelope[p]: what the handler returned to the dispatcher
    sent,       \* HTTP requests sent so far, in order
    writes,     \* writeFileSync calls that completed, in order
    files,      \* the output file system: path -> bytes
    clock       \* Date.now()

vars == <<pc, tool, raw, args, reads, http, gc, ex, caught, envelope,
          sent, writes, files, clock>>

(***************************************************************************)
(* Bounds of the model.                                                    *)
(***************************************************************************)
\* parts in the first candidate of a response a handler receives
MaxParts == 2
\* parts in the first candidate of a response extractResult is applied to
MaxExtractParts == 3
\* largest number of image_paths a compose_images call is tried with
MaxPathCount == 15

Procs == {1, 2}

(***************************************************************************)
(* JavaScript values.                                                      *)
(***************************************************************************)
EmptyObject == [k \in {} |-> k]
NullValue == [null |-> TRUE]
None == [none |-> TRUE]
\* a string where null is possible too: Str(s) or NullValue
Str(s) == [str |-> s]

IsNull(v) == "null" \in DOMAIN v
IsNone(v) == "none" \in DOMAIN v
\* `!v` for a string or null
Falsy(v) == IsNull(v) \/ v.str = ""
Has(obj, k) == k \in DOMAIN obj
\* `obj.k` used as a condition, for a string-valued field
Truthy(obj, k) == Has(obj, k) /\ obj[k] # ""
Merge(f, g) == [k \in DOMAIN f \cup DOMAIN g |-> IF k \in DOMAIN f THEN f[k] ELSE g[k]]

Return(v) == [kind |-> "return", value |-> v]
Throw(e) == [kind |-> "throw", error |-> e]

JsError(name, message) == [name |-> name, message |-> message]
GeminiApiError(status, message) ==
    [name |-> "GeminiApiError", status |-> status, message |-> message]

(***************************************************************************)
(* auth.ts                                                                 *)
(***************************************************************************)
API_KEY == "test-api-key"
BASE_URL == "https://generativelanguage.googleapis.com/v1beta"

(***************************************************************************)
(* Model mapping                                                           *)
(***************************************************************************)
MODELS == [flash |-> "gemini-2.5-flash-image", pro |-> "gemini-3-pro-image-preview"]

\* MODELS[choice]; a key that is not in the table yields undefined, which a
\* template literal renders as "undefined".
resolveModel(choice) == IF choice \in DOMAIN MODELS THEN MODELS[choice] ELSE "undefined"

(***************************************************************************)
(* generateContent: the request                                            *)
(***************************************************************************)
ImageConfigOf(options) ==
    Merge(IF Truthy(options, "aspectRatio")
             THEN [aspectRatio |-> options.aspectRatio] ELSE EmptyObject,
          IF Truthy(options, "imageSize")
             THEN [imageSize |-> options.imageSize] ELSE EmptyObject)

Includes(seq, x) == \E i \in 1..Len(seq) : seq[i] = x

\* GenerationConfigOf with a fault: imageConfig is attached without the guard
GenerationConfigNoGuard(options) ==
    [responseModalities |-> options.responseModalities,
     imageConfig |-> ImageConfigOf(options)]
GenerationConfigOf(options) ==
    Merge([responseModalities |-> options.responseModalities],
          IF /\ Includes(options.responseModalities, "IMAGE")
             /\ (Truthy(options, "aspectRatio") \/ Truthy(options, "imageSize"))
             THEN [imageConfig |-> ImageConfigOf(options)]
             ELSE EmptyObject)

UrlOf(modelId) == BASE_URL \o "/models/" \o modelId \o ":generateContent"

\* what generateContent hands to fetch
BuildRequest(options) ==
    [url |-> UrlOf(resolveModel(options.model)),
     method |-> "POST",
     headers |-> [contentType |-> "application/json", xGoogApiKey |-> API_KEY],
     body |-> [contents |-> <<[role |-> "user", parts |-> options.parts]>>,
               generationConfig |-> GenerationConfigOf(options)]]

(***************************************************************************)
(* generateContent: the response                                           *)
(***************************************************************************)
RATE_LIMIT_STATUS == 429
RATE_LIMIT_MESSAGE ==
    "Rate limit exceeded. Gemini image generation is limited to ~2-5 requests per minute. Try again in a moment."

\* response.ok
ResponseOk(status) == status >= 200 /\ status <= 299

\* response.json(): the parsed body, or a rejection when the body is no JSON
ResponseJson(resp) ==
    IF resp.body.parsable THEN Return(resp.body.json)
    ELSE Throw(JsError("SyntaxError", "Unexpected end of JSON input"))

\* await response.json().catch(() => ({}))
ErrorBodyOf(resp) ==
    IF ResponseJson(resp).kind = "return" THEN ResponseJson(resp).value ELSE EmptyObject

\* DerivedMessage with a fault: error.error.message is looked at first
DerivedMessageErrorFirst(error, statusText) ==
    IF Has(error, "error") /\ ~IsNull(error.error) /\ Truthy(error.error, "message")
    THEN error.error.message
    ELSE IF Truthy(error, "message") THEN error.message
    ELSE statusText
\* error.message || error.error?.message || response.statusText
DerivedMessage(error, statusText) ==
    IF Truthy(error, "message") THEN error.message
    ELSE IF Has(error, "error") /\ ~IsNull(error.error) /\ Truthy(error.error, "message")
         THEN error.error.message
    ELSE statusText

\* HandleResponse with a fault: status 429 is not special-cased
HandleResponseNo429(resp) ==
    IF ~ResponseOk(resp.status)
    THEN Throw(GeminiApiError(resp.status,
                 "Gemini API error (" \o ToString(resp.status) \o "): "
                    \o DerivedMessage(ErrorBodyOf(resp), resp.statusText)))
    ELSE ResponseJson(resp)
\* the part of generateContent after fetch resolved
HandleResponse(resp) ==
    IF ~ResponseOk(resp.status)
    THEN IF resp.status = RATE_LIMIT_STATUS
         THEN Throw(GeminiApiError(RATE_LIMIT_STATUS, RATE_LIMIT_MESSAGE))
         ELSE Throw(GeminiApiError(resp.status,
                 "Gemini API error (" \o ToString(resp.status) \o "): "
                    \o DerivedMessage(ErrorBodyOf(resp), resp.statusText)))
    ELSE ResponseJson(resp)

(***************************************************************************)
(* Image file helpers                                                      *)
(***************************************************************************)
\* extname(filePath).toLowerCase() on the input paths of the model
ExtName == [p \in {"cat.JPG", "scan.tiff"} |->
               IF p = "cat.JPG" THEN ".jpg" ELSE ".tiff"]

mimeMap == [e \in {".png", ".jpg", ".jpeg", ".gif", ".webp", ".bmp"} |->
               CASE e = ".png" -> "image/png"
                 [] e = ".jpg" -> "image/jpeg"
                 [] e = ".jpeg" -> "image/jpeg"
                 [] e = ".gif" -> "image/gif"
                 [] e = ".webp" -> "image/webp"
                 [] e = ".bmp" -> "image/bmp"]

\* buffer.toString("base64")
Base64Encode(bytes) == "b64(" \o bytes \o ")"
\* Buffer.from(base64, "base64")
BufferFrom(base64) == "bytes(" \o base64 \o ")"

\* readFileSync throws when the file cannot be read
readImageAsBase64(filePath, readable) ==
    IF ~readable
    THEN Throw(JsError("Error", "ENOENT: no such file or directory, open '" \o filePath \o "'"))
    ELSE Return([data |-> Base64Encode("content of " \o filePath),
                 mimeType |-> IF ExtName[filePath] \in DOMAIN mimeMap
                                 THEN mimeMap[ExtName[filePath]] ELSE "image/png"])

\* join(outputDir, filename)
Join(outputDir, filename) ==
    IF outputDir \in {"", "."} THEN filename ELSE outputDir \o "/" \o filename

FileNameOf(timestamp) == "nano-banana-" \o ToString(timestamp) \o ".png"

\* saveBase64Image, with Date.now() = now; writeFileSync throws when writable
\* is false (missing directory, no permission, full disk)
saveBase64Image(base64, outputDir, now, writable) ==
    IF writable
    THEN Return([filePath |-> Join(outputDir, FileNameOf(now)),
                 buffer |-> BufferFrom(base64)])
    ELSE Throw(JsError("Error", "ENOENT: no such file or directory, open '"
                                   \o Join(outputDir, FileNameOf(now)) \o "'"))

(***************************************************************************)
(* Response extraction                                                     *)
(***************************************************************************)
DEFAULT_ERROR_CODE == 500

\* part.inlineData?.data, as a condition
HasInlineData(part) ==
    /\ Has(part, "inlineData")
    /\ ~IsNull(part.inlineData)
    /\ Truthy(part.inlineData, "data")

\* part.text, as a condition
HasText(part) == Truthy(part, "text")

\* JoinLines with a fault: join("")
RECURSIVE JoinNoSeparator(_)
JoinNoSeparator(seq) ==
    IF Len(seq) = 0 THEN "" ELSE seq[1] \o JoinNoSeparator(Tail(seq))
\* textParts.join("\n")
RECURSIVE JoinLines(_)
JoinLines(seq) ==
    IF Len(seq) = 0 THEN ""
    ELSE IF Len(seq) = 1 THEN seq[1]
    ELSE seq[1] \o "\n" \o JoinLines(Tail(seq))

\* The loop `for (const part of parts)` from part i on.  st is the state of
\* the call: textParts, imagePath, the clock, the writes done, the number of
\* saveBase64Image calls, and the exception that ended the loop, if any.
\* adv[n] is how far Date.now() moved before the n-th save; the failAt-th
\* save throws (0: none does).
RECURSIVE ExtractLoop(_, _, _, _, _, _)
ExtractLoop(parts, i, outputDir, adv, failAt, st) ==
    IF i > Len(parts) THEN st
    ELSE IF IsNull(parts[i])
    THEN [st EXCEPT !.thrown =
            JsError("TypeError", "Cannot read properties of null (reading 'text')")]
    ELSE LET part == parts[i]
             texts == IF HasText(part) THEN Append(st.textParts, part.text)
                      ELSE st.textParts
         IN IF HasInlineData(part)
            THEN LET n == st.saves + 1
                     now == st.clock + adv[n]
                     saved == saveBase64Image(part.inlineData.data, outputDir,
                                              now, failAt # n)
                 IN IF saved.kind = "throw"
                    THEN [st EXCEPT !.textParts = texts, !.saves = n, !.clock = now,
                                    !.thrown = saved.error]
                    ELSE ExtractLoop(parts, i + 1, outputDir, adv, failAt,
                            [st EXCEPT !.textParts = texts, !.saves = n, !.clock = now,
                                       !.imagePath = Str(saved.value.filePath),
                                       !.writes = Append(st.writes,
                                           [path |-> saved.value.filePath,
                                            timestamp |-> now,
                                            bytes |-> saved.value.buffer,
                                            base64 |-> part.inlineData.data])])
            ELSE ExtractLoop(parts, i + 1, outputDir, adv, failAt,
                             [st EXCEPT !.textParts = texts])

NoCandidates(response) ==
    \/ ~Has(response, "candidates")
    \/ Len(response.candidates) = 0

\* FirstParts with a fault: the last candidate is read instead of the first
LastParts(response) ==
    IF Has(response.candidates[Len(response.candidates)], "content")
    THEN Return(response.candidates[Len(response.candidates)].content.parts)
    ELSE Throw(JsError("TypeError", "Cannot read properties of undefined (reading 'parts')"))
\* response.candidates[0].content.parts: a TypeError when the candidate has no
\* content (a candidate that only carries a finishReason)
FirstParts(response) ==
    IF Has(response.candidates[1], "content")
    THEN Return(response.candidates[1].content.parts)
    ELSE Throw(JsError("TypeError", "Cannot read properties of undefined (reading 'parts')"))

\* NoCandidatesOutcome with a fault: the error descriptor is not looked at
NoCandidatesOutcomeSilent(response) ==
    Return([text |-> NullValue, imagePath |-> NullValue])
\* the branch of extractResult for a response without candidates
NoCandidatesOutcome(response) ==
    IF Has(response, "error")
    THEN Throw(GeminiApiError(
            IF Has(response.error, "code") /\ response.error.code # 0
               THEN response.error.code ELSE DEFAULT_ERROR_CODE,
            response.error.message))
    ELSE Return([text |-> NullValue, imagePath |-> NullValue])

\* extractResult(response, outputDir) called at Date.now() = now.
\* outcome: Return({text, imagePath}) or Throw(error); writes: the files
\* written, in order; clock: Date.now() when the call ends.
extractResult(response, outputDir, now, adv, failAt) ==
    IF NoCandidates(response)
    THEN [outcome |-> NoCandidatesOutcome(response), writes |-> <<>>, clock |-> now]
    ELSE IF FirstParts(response).kind = "throw"
    THEN [outcome |-> FirstParts(response), writes |-> <<>>, clock |-> now]
    ELSE LET st == ExtractLoop(FirstParts(response).value, 1, outputDir, adv, failAt,
                         [textParts |-> <<>>, imagePath |-> NullValue, clock |-> now,
                          writes |-> <<>>, saves |-> 0, thrown |-> None])
            IN [outcome |-> IF ~IsNone(st.thrown) THEN Throw(st.thrown)
                            ELSE Return([text |-> IF Len(st.textParts) > 0
                                                  THEN Str(JoinLines(st.textParts))
                                                  ELSE NullValue,
                                         imagePath |-> st.imagePath]),
                writes |-> st.writes, clock |-> st.clock]

(***************************************************************************)
(* Tool result helpers                                                     *)
(***************************************************************************)
\* JSON.stringify(data, null, 2): the text that encodes data
JsonStringify(data) == [json |-> data]

toolResult(data) ==
    [content |-> <<[type |-> "text", text |-> JsonStringify(data)]>>]

toolResultWithImage(data, base64) ==
    [content |-> <<[type |-> "image", data |-> base64, mimeType |-> "image/png"],
                   [type |-> "text", text |-> JsonStringify(data)]>>]

toolError(message) ==
    [isError |-> TRUE, content |-> <<[type |-> "text", text |-> message]>>]

(***************************************************************************)
(* Input schemas of the four tools (zod), as the dispatcher applies them   *)
(* before it calls a handler.                                              *)
(***************************************************************************)
GENERATE == "generate_image"
EDIT == "edit_image"
COMPOSE == "compose_images"
DESCRIBE == "describe_image"
Tools == {GENERATE, EDIT, COMPOSE, DESCRIBE}
ImageTools == {GENERATE, EDIT, COMPOSE}

MODEL_ENUM == {"flash", "pro"}
ASPECT_RATIO_ENUM ==
    {"1:1", "16:9", "9:16", "4:3", "3:4", "3:2", "2:3", "21:9", "4:5", "5:4"}
IMAGE_SIZE_ENUM == {"1K", "2K", "4K"}
MIN_IMAGE_PATHS == 1
MAX_IMAGE_PATHS == 14

\* z.enum(E).default(d), and the same wrapped in .optional()
EnumOk(a, k, E) == Has(a, k) => a[k] \in E
\* z.string().min(1)
NonEmptyString(a, k) == Has(a, k) /\ a[k] # ""
\* z.array(z.string()).min(1).max(14)
PathArrayOk(a, k) ==
    Has(a, k) /\ Len(a[k]) >= MIN_IMAGE_PATHS /\ Len(a[k]) <= MAX_IMAGE_PATHS

\* SchemaAccepts with a fault: any model name passes
SchemaAcceptsAnyModel(t, a) ==
    CASE t = GENERATE ->
           /\ NonEmptyString(a, "prompt")
           /\ EnumOk(a, "aspect_ratio", ASPECT_RATIO_ENUM)
           /\ EnumOk(a, "image_size", IMAGE_SIZE_ENUM)
      [] t = EDIT ->
           /\ NonEmptyString(a, "image_path")
           /\ NonEmptyString(a, "instruction")
           /\ EnumOk(a, "aspect_ratio", ASPECT_RATIO_ENUM)
           /\ EnumOk(a, "image_size", IMAGE_SIZE_ENUM)
      [] t = COMPOSE ->
           /\ PathArrayOk(a, "image_paths")
           /\ NonEmptyString(a, "instruction")
           /\ EnumOk(a, "aspect_ratio", ASPECT_RATIO_ENUM)
           /\ EnumOk(a, "image_size", IMAGE_SIZE_ENUM)
      [] t = DESCRIBE ->
           /\ NonEmptyString(a, "image_path")

\* SchemaAccepts with a fault: image_paths has no bounds
SchemaAcceptsAnyLength(t, a) ==
    CASE t = GENERATE ->
           /\ NonEmptyString(a, "prompt")
           /\ EnumOk(a, "model", MODEL_ENUM)
           /\ EnumOk(a, "aspect_ratio", ASPECT_RATIO_ENUM)
           /\ EnumOk(a, "image_size", IMAGE_SIZE_ENUM)
      [] t = EDIT ->
           /\ NonEmptyString(a, "image_path")
           /\ NonEmptyString(a, "instruction")
           /\ EnumOk(a, "model", MODEL_ENUM)
           /\ EnumOk(a, "aspect_ratio", ASPECT_RATIO_ENUM)
           /\ EnumOk(a, "image_size", IMAGE_SIZE_ENUM)
      [] t = COMPOSE ->
           /\ Has(a, "image_paths")
           /\ NonEmptyString(a, "instruction")
           /\ EnumOk(a, "model", MODEL_ENUM)
           /\ EnumOk(a, "aspect_ratio", ASPECT_RATIO_ENUM)
           /\ EnumOk(a, "image_size", IMAGE_SIZE_ENUM)
      [] t = DESCRIBE ->
           /\ NonEmptyString(a, "image_path")
           /\ EnumOk(a, "model", MODEL_ENUM)

\* whether the arguments a pass the inputSchema of tool t
SchemaAccepts(t, a) ==
    CASE t = GENERATE ->
           /\ NonEmptyString(a, "prompt")
           /\ EnumOk(a, "model", MODEL_ENUM)
           /\ EnumOk(a, "aspect_ratio", ASPECT_RATIO_ENUM)
           /\ EnumOk(a, "image_size", IMAGE_SIZE_ENUM)
      [] t = EDIT ->
           /\ NonEmptyString(a, "image_path")
           /\ NonEmptyString(a, "instruction")
           /\ EnumOk(a, "model", MODEL_ENUM)
           /\ EnumOk(a, "aspect_ratio", ASPECT_RATIO_ENUM)
           /\ EnumOk(a, "image_size", IMAGE_SIZE_ENUM)
      [] t = COMPOSE ->
           /\ PathArrayOk(a, "image_paths")
           /\ NonEmptyString(a, "instruction")
           /\ EnumOk(a, "model", MODEL_ENUM)
           /\ EnumOk(a, "aspect_ratio", ASPECT_RATIO_ENUM)
           /\ EnumOk(a, "image_size", IMAGE_SIZE_ENUM)
      [] t = DESCRIBE ->
           /\ NonEmptyString(a, "image_path")
           /\ EnumOk(a, "model", MODEL_ENUM)

\* .default(d): the field k of a, d when it is missing
WithDefault(a, k, d) == IF Has(a, k) THEN a[k] ELSE d
Field(k, v) == [x \in {k} |-> v]

\* The arguments the handler of t is called with.  An omitted aspect_ratio of
\* edit_image (ASPECT_RATIO_ENUM.optional()) stays undefined or becomes the
\* inner default, depending on the zod release the build resolves.
ParsedArgs(t, a) ==
    CASE t = GENERATE ->
           {[prompt |-> a.prompt,
             model |-> WithDefault(a, "model", "flash"),
             aspect_ratio |-> WithDefault(a, "aspect_ratio", "1:1"),
             image_size |-> WithDefault(a, "image_size", "1K"),
             output_dir |-> WithDefault(a, "output_dir", ".")]}
      [] t = EDIT ->
           {Merge([image_path |-> a.image_path,
                   instruction |-> a.instruction,
                   model |-> WithDefault(a, "model", "flash"),
                   image_size |-> WithDefault(a, "image_size", "1K"),
                   output_dir |-> WithDefault(a, "output_dir", ".")], o) :
              o \in IF Has(a, "aspect_ratio")
                    THEN {Field("aspect_ratio", a.aspect_ratio)}
                    ELSE {EmptyObject, Field("aspect_ratio", "1:1")}}
      [] t = COMPOSE ->
           {[image_paths |-> a.image_paths,
             instruction |-> a.instruction,
             model |-> WithDefault(a, "model", "flash"),
             aspect_ratio |-> WithDefault(a, "aspect_ratio", "1:1"),
             image_size |-> WithDefault(a, "image_size", "1K"),
             output_dir |-> WithDefault(a, "output_dir", ".")]}
      [] t = DESCRIBE ->
           {[image_path |-> a.image_path,
             prompt |-> WithDefault(a, "prompt", "Describe this image in detail."),
             model |-> WithDefault(a, "model", "flash")]}

(***************************************************************************)
(* The tool handlers                                                       *)
(***************************************************************************)
FailedPrefix(t) ==
    CASE t = GENERATE -> "Failed to generate image: "
      [] t = EDIT -> "Failed to edit image: "
      [] t = COMPOSE -> "Failed to compose images: "
      [] t = DESCRIBE -> "Failed to describe image: "

NoImageMessage(t) ==
    CASE t = GENERATE ->
           "No image was generated. The model may have refused the prompt due to safety filters. Try rephrasing."
      [] t = EDIT ->
           "No image was generated. The model may have refused the edit. Try a different instruction."
      [] t = COMPOSE ->
           "No image was generated from composition. Try a different instruction."

NO_DESCRIPTION_MESSAGE == "No description was generated."

\* the files the handler of t reads, in order
InputPaths(t, a) ==
    CASE t = GENERATE -> <<>>
      [] t = EDIT -> <<a.image_path>>
      [] t = COMPOSE -> a.image_paths
      [] t = DESCRIBE -> <<a.image_path>>

\* The reads of the handler: readImageAsBase64 on each input path in order;
\* the failIdx-th read throws (0: none does).  attempts counts the calls made.
ReadInputs(t, a, failIdx) ==
    LET paths == InputPaths(t, a)
    IN IF failIdx = 0
       THEN [outcome |-> Return([i \in 1..Len(paths) |->
                                   readImageAsBase64(paths[i], TRUE).value]),
             attempts |-> Len(paths)]
       ELSE [outcome |-> readImageAsBase64(paths[failIdx], FALSE),
             attempts |-> failIdx]

InlinePart(img) == [inlineData |-> [mimeType |-> img.mimeType, data |-> img.data]]

\* the options the handler of t passes to generateContent
OptionsOf(t, a, imgs) ==
    CASE t = GENERATE ->
           [model |-> a.model,
            parts |-> <<[text |-> a.prompt]>>,
            responseModalities |-> <<"TEXT", "IMAGE">>,
            aspectRatio |-> a.aspect_ratio,
            imageSize |-> a.image_size]
      [] t = EDIT ->
           Merge([model |-> a.model,
                  parts |-> <<InlinePart(imgs[1]), [text |-> a.instruction]>>,
                  responseModalities |-> <<"TEXT", "IMAGE">>,
                  imageSize |-> a.image_size],
                 IF Has(a, "aspect_ratio")
                 THEN [aspectRatio |-> a.aspect_ratio] ELSE EmptyObject)
      [] t = COMPOSE ->
           [model |-> a.model,
            parts |-> [i \in 1..Len(imgs) |-> InlinePart(imgs[i])]
                         \o <<[text |-> a.instruction]>>,
            responseModalities |-> <<"TEXT", "IMAGE">>,
            aspectRatio |-> a.aspect_ratio,
            imageSize |-> a.image_size]
      [] t = DESCRIBE ->
           [model |-> a.model,
            parts |-> <<InlinePart(imgs[1]), [text |-> a.prompt]>>,
            responseModalities |-> <<"TEXT">>]

\* parts.find((p) => p.inlineData?.data) followed by imagePart!.inlineData!.data
RECURSIVE FindImageData(_, _)
FindImageData(parts, i) ==
    IF i > Len(parts)
    THEN Throw(JsError("TypeError", "Cannot read properties of undefined (reading 'inlineData')"))
    ELSE IF IsNull(parts[i])
    THEN Throw(JsError("TypeError", "Cannot read properties of null (reading 'inlineData')"))
    ELSE IF HasInlineData(parts[i]) THEN Return(parts[i].inlineData.data)
    ELSE FindImageData(parts, i + 1)

\* the metadata object of a success envelope
MetaOf(t, a, result) ==
    CASE t = GENERATE ->
           [saved_to |-> result.imagePath, model |-> a.model,
            aspect_ratio |-> a.aspect_ratio, image_size |-> a.image_size,
            description |-> result.text]
      [] t = EDIT ->
           [saved_to |-> result.imagePath, source |-> a.image_path,
            instruction |-> a.instruction, model |-> a.model,
            description |-> result.text]
      [] t = COMPOSE ->
           [saved_to |-> result.imagePath, sources |-> a.image_paths,
            instruction |-> a.instruction, model |-> a.model,
            description |-> result.text]

\* ImageToolResult with a fault: the check of result.imagePath is missing
ImageToolResultNoCheck(t, a, response, x) ==
    IF x.kind = "throw" THEN x
    ELSE IF NoCandidates(response)
    THEN Throw(JsError("TypeError", "Cannot read properties of undefined (reading '0')"))
    ELSE LET found == FindImageData(response.candidates[1].content.parts, 1)
         IN IF found.kind = "throw" THEN found
            ELSE Return(toolResultWithImage(MetaOf(t, a, x.value), found.value))
\* generate_image, edit_image, compose_images after extractResult ended with x
ImageToolResult(t, a, response, x) ==
    IF x.kind = "throw" THEN x
    ELSE IF Falsy(x.value.imagePath) THEN Return(toolError(NoImageMessage(t)))
    ELSE LET found == FindImageData(response.candidates[1].content.parts, 1)
         IN IF found.kind = "throw" THEN found
            ELSE Return(toolResultWithImage(MetaOf(t, a, x.value), found.value))

\* parts.filter((p) => p.text).map((p) => p.text!).join("\n")
RECURSIVE FilterTexts(_, _)
FilterTexts(parts, i) ==
    IF i > Len(parts) THEN Return(<<>>)
    ELSE IF IsNull(parts[i])
    THEN Throw(JsError("TypeError", "Cannot read properties of null (reading 'text')"))
    ELSE LET rest == FilterTexts(parts, i + 1)
         IN IF rest.kind = "throw" THEN rest
            ELSE IF HasText(parts[i]) THEN Return(<<parts[i].text>> \o rest.value)
            ELSE rest

\* DescribeResult with a fault: the test for missing candidates is absent
DescribeResultNoEmptyCheck(a, response) ==
    IF NoCandidates(response)
    THEN Throw(JsError("TypeError", "Cannot read properties of undefined (reading '0')"))
    ELSE IF FirstParts(response).kind = "throw" THEN FirstParts(response)
    ELSE LET texts == FilterTexts(FirstParts(response).value, 1)
         IN IF texts.kind = "throw" THEN texts
            ELSE Return(toolResult([image_path |-> a.image_path,
                                    description |-> JoinLines(texts.value),
                                    model |-> a.model]))
\* describe_image after generateContent returned response
DescribeResult(a, response) ==
    IF NoCandidates(response) THEN Return(toolError(NO_DESCRIPTION_MESSAGE))
    ELSE IF FirstParts(response).kind = "throw" THEN FirstParts(response)
    ELSE LET texts == FilterTexts(FirstParts(response).value, 1)
         IN IF texts.kind = "throw" THEN texts
            ELSE Return(toolResult([image_path |-> a.image_path,
                                    description |-> JoinLines(texts.value),
                                    model |-> a.model]))

\* TryCatch with a fault: no catch clause, the exception leaves the handler
NoCatch(t, outcome) == outcome
\* try { ... } catch (error) { return toolError(`Failed to ...: ${error.message}`) }
TryCatch(t, outcome) ==
    IF outcome.kind = "throw"
    THEN Return(toolError(FailedPrefix(t) \o outcome.error.message))
    ELSE outcome

(***************************************************************************)
(* The environment: tool calls, the endpoint's answers, the file system    *)
(***************************************************************************)
Opt(k, V) == {EmptyObject} \cup {Field(k, v) : v \in V}
Cross(A, B) == {Merge(x, y) : x \in A, y \in B}

PathSeq(n) == [i \in 1..n |-> IF i % 2 = 1 THEN "cat.JPG" ELSE "scan.tiff"]

ModelArgs == Opt("model", {"flash", "pro", "ultra"})
AspectArgs == Opt("aspect_ratio", {"16:9", "7:1"})
SizeArgs == Opt("image_size", {"4K"})
DirArgs == Opt("output_dir", {"out"})
ImageArgs == Cross(Cross(Cross(ModelArgs, AspectArgs), SizeArgs), DirArgs)

\* the tool calls a client makes: valid ones and ones the schema rejects
Calls ==
    {[tool |-> GENERATE, args |-> x] :
        x \in Cross(Opt("prompt", {"", "a cat"}), ImageArgs)}
    \cup {[tool |-> EDIT, args |-> x] :
        x \in Cross(Cross(Opt("image_path", {"", "cat.JPG"}),
                          {Field("instruction", v) : v \in {"", "add a hat"}}),
                    ImageArgs)}
    \cup {[tool |-> COMPOSE, args |-> x] :
        x \in Cross(Cross({Field("image_paths", PathSeq(n)) : n \in 0..MaxPathCount},
                          {Field("instruction", v) : v \in {"", "blend"}}),
                    ModelArgs)}
    \cup {[tool |-> COMPOSE, args |-> x] :
        x \in Cross(Cross(Opt("image_paths", {PathSeq(2)}),
                          {Field("instruction", "blend")}),
                    ImageArgs)}
    \cup {[tool |-> DESCRIBE, args |-> x] :
        x \in Cross(Cross(Opt("image_path", {"", "cat.JPG"}),
                          Opt("prompt", {"", "what is this?"})),
                    ModelArgs)}

TextPart(s) == [text |-> s]
ImagePart(d) == [inlineData |-> [mimeType |-> "image/png", data |-> d]]

\* the parts a response is made of: texts (one empty), inline images (one with
\* an empty payload), and a null where a part should be
PartKinds ==
    {TextPart(""), TextPart("A"), TextPart("B"),
     ImagePart(""), ImagePart("P"), ImagePart("Q"), NullValue}

PartSeqs(n) == UNION {[1..k -> PartKinds] : k \in 0..n}

Candidate(parts) == [content |-> [parts |-> parts, role |-> "model"]]
\* a candidate that was cut off before any content
BlockedCandidate == [finishReason |-> "SAFETY"]
\* a second candidate, which carries a text and an image of its own
OtherCandidate == Candidate(<<TextPart("Z"), ImagePart("R")>>)

ErrorDescriptors ==
    {[message |-> "blocked"],
     [message |-> "blocked", code |-> 0],
     [message |-> "blocked", code |-> 403]}

\* the bodies of 2xx answers: GeminiResponse objects whose first candidate has
\* at most n parts
GeminiResponses(n) ==
    LET firsts == {Candidate(ps) : ps \in PartSeqs(n)} \cup {BlockedCandidate}
        meta == [modelVersion |-> "v"]
    IN {Merge(meta, [candidates |-> <<c>>]) : c \in firsts}
       \cup {Merge(meta, [candidates |-> <<c, OtherCandidate>>]) : c \in firsts}
       \cup {meta, Merge(meta, [candidates |-> <<>>])}
       \cup {Merge(meta, [error |-> e]) : e \in ErrorDescriptors}
       \cup {Merge(meta, [candidates |-> <<>>, error |-> e]) : e \in ErrorDescriptors}

Parsed(json) == [parsable |-> TRUE, json |-> json]
Unparsable == [parsable |-> FALSE]

OkAnswers(n) ==
    {[status |-> 200, statusText |-> "OK", body |-> Parsed(r)] : r \in GeminiResponses(n)}

\* the bodies of non-2xx answers
ErrorBodies ==
    {Unparsable,
     Parsed(EmptyObject),
     Parsed([message |-> "quota exceeded"]),
     Parsed([message |-> ""]),
     Parsed([error |-> [message |-> "API key not valid", code |-> 400]]),
     Parsed([message |-> "", error |-> [message |-> "API key not valid"]]),
     Parsed([message |-> "quota exceeded", error |-> [message |-> "API key not valid"]])}

StatusTexts(status) ==
    CASE status = 400 -> {"Bad Request", ""}
      [] status = 429 -> {"Too Many Requests", ""}
      [] status = 503 -> {"Service Unavailable", ""}

ErrorAnswers ==
    {[status |-> st, statusText |-> tx, body |-> b] :
        st \in {400, 429, 503}, tx \in {"Bad Request", "Too Many Requests",
                                        "Service Unavailable", ""}, b \in ErrorBodies}

\* what fetch can resolve with
Answers(n) ==
    OkAnswers(n)
    \cup {[status |-> 200, statusText |-> "OK", body |-> Unparsable]}
    \cup {x \in ErrorAnswers : x.statusText \in StatusTexts(x.status)}

\* the saves extractResult attempts on parts from part i on
RECURSIVE SavesIn(_, _)
SavesIn(parts, i) ==
    IF i > Len(parts) \/ IsNull(parts[i]) THEN 0
    ELSE (IF HasInlineData(parts[i]) THEN 1 ELSE 0) + SavesIn(parts, i + 1)

SavesOf(response) ==
    IF NoCandidates(response) \/ FirstParts(response).kind = "throw" THEN 0
    ELSE SavesIn(FirstParts(response).value, 1)

\* ApplyWrites with a fault: a path that exists is not written again
RECURSIVE ApplyWritesKeepFirst(_, _)
ApplyWritesKeepFirst(fs, ws) ==
    IF Len(ws) = 0 THEN fs
    ELSE ApplyWritesKeepFirst([q \in DOMAIN fs \cup {ws[1].path} |->
                                  IF q \in DOMAIN fs THEN fs[q] ELSE ws[1].bytes],
                              Tail(ws))
\* writeFileSync of each write in order: a later write to a path replaces
\* the bytes an earlier one left there
RECURSIVE ApplyWrites(_, _)
ApplyWrites(fs, ws) ==
    IF Len(ws) = 0 THEN fs
    ELSE ApplyWrites([q \in DOMAIN fs \cup {ws[1].path} |->
                         IF q = ws[1].path THEN ws[1].bytes ELSE fs[q]],
                     Tail(ws))

(***************************************************************************)
(* A tool invocation, from the call to the envelope                        *)
(***************************************************************************)
\* The handler of t from the point where fetch resolved with resp, at
\* Date.now() = now: the rest of generateContent, then extraction and the
\* choice of the envelope.  body is how the try block ended.
HandlerTail(t, a, resp, now, adv, failAt) ==
    LET g == HandleResponse(resp)
    IN IF g.kind = "throw"
       THEN [gc |-> g, ex |-> None, body |-> g, writes |-> <<>>, clock |-> now]
       ELSE IF t = DESCRIBE
       THEN [gc |-> g, ex |-> None, body |-> DescribeResult(a, g.value),
             writes |-> <<>>, clock |-> now]
       ELSE LET x == extractResult(g.value, a.output_dir, now, adv, failAt)
            IN [gc |-> g, ex |-> x.outcome,
                body |-> ImageToolResult(t, a, g.value, x.outcome),
                writes |-> x.writes, clock |-> x.clock]

Init ==
    /\ pc = [p \in Procs |-> "idle"]
    /\ tool = [p \in Procs |-> ""]
    /\ raw = [p \in Procs |-> None]
    /\ args = [p \in Procs |-> None]
    /\ reads = [p \in Procs |-> 0]
    /\ http = [p \in Procs |-> None]
    /\ gc = [p \in Procs |-> None]
    /\ ex = [p \in Procs |-> None]
    /\ caught = [p \in Procs |-> None]
    /\ envelope = [p \in Procs |-> None]
    /\ sent = <<>>
    /\ writes = <<>>
    /\ files = EmptyObject
    /\ clock = 0

\* a client calls a tool: the call reaches the dispatcher
CallTool(p, C) ==
    /\ pc[p] = "idle"
    /\ \E c \in C :
        /\ tool' = [tool EXCEPT ![p] = c.tool]
        /\ raw' = [raw EXCEPT ![p] = c.args]
    /\ pc' = [pc EXCEPT ![p] = "called"]
    /\ UNCHANGED <<args, reads, http, gc, ex, caught, envelope, sent, writes, files, clock>>

\* the dispatcher checks the arguments against the tool's inputSchema; it
\* calls the handler only with arguments that pass
ValidateInput(p) ==
    /\ pc[p] = "called"
    /\ IF SchemaAccepts(tool[p], raw[p])
       THEN /\ \E a \in ParsedArgs(tool[p], raw[p]) : args' = [args EXCEPT ![p] = a]
            /\ raw' = [raw EXCEPT ![p] = None]
            /\ pc' = [pc EXCEPT ![p] = "validated"]
       ELSE /\ pc' = [pc EXCEPT ![p] = "rejected"]
            /\ UNCHANGED <<raw, args>>
    /\ UNCHANGED <<tool, reads, http, gc, ex, caught, envelope, sent, writes, files, clock>>

\* the handler runs up to `await fetch(...)`: it reads its input files and
\* generateContent sends the request; a read that throws ends the handler in
\* its catch clause
HandlerStart(p) ==
    /\ pc[p] = "validated"
    /\ \E failIdx \in 0..Len(InputPaths(tool[p], args[p])) :
        LET rd == ReadInputs(tool[p], args[p], failIdx)
            out == TryCatch(tool[p], rd.outcome)
        IN /\ reads' = [reads EXCEPT ![p] = rd.attempts]
           /\ IF rd.outcome.kind = "throw"
              THEN /\ caught' = [caught EXCEPT ![p] = rd.outcome.error]
                   /\ pc' = [pc EXCEPT ![p] = IF out.kind = "return" THEN "done" ELSE "faulted"]
                   /\ envelope' = [envelope EXCEPT ![p] =
                                      IF out.kind = "return" THEN out.value ELSE None]
                   /\ UNCHANGED sent
              ELSE /\ sent' = Append(sent,
                                [proc |-> p,
                                 request |-> BuildRequest(
                                     OptionsOf(tool[p], args[p], rd.outcome.value))])
                   /\ pc' = [pc EXCEPT ![p] = "awaiting"]
                   /\ UNCHANGED <<caught, envelope>>
    /\ UNCHANGED <<tool, raw, args, http, gc, ex, writes, files, clock>>

\* fetch rejects (no connection): generateContent throws what fetch threw
FetchRejects(p) ==
    /\ pc[p] = "awaiting"
    /\ LET err == JsError("TypeError", "fetch failed")
           out == TryCatch(tool[p], Throw(err))
       IN /\ gc' = [gc EXCEPT ![p] = Throw(err)]
          /\ caught' = [caught EXCEPT ![p] = err]
          /\ pc' = [pc EXCEPT ![p] = IF out.kind = "return" THEN "done" ELSE "faulted"]
          /\ envelope' = [envelope EXCEPT ![p] =
                             IF out.kind = "return" THEN out.value ELSE None]
    /\ UNCHANGED <<tool, raw, args, reads, http, ex, sent, writes, files, clock>>

\* fetch resolves with one of the answers R: the handler runs to its end
HttpResponse(p, R) ==
    /\ pc[p] = "awaiting"
    /\ \E resp \in R :
        LET k == IF tool[p] \in ImageTools /\ HandleResponse(resp).kind = "return"
                 THEN SavesOf(HandleResponse(resp).value) ELSE 0
        IN \E adv \in [1..k -> {0, 1}], failAt \in 0..k :
            LET tail == HandlerTail(tool[p], args[p], resp, clock, adv, failAt)
                out == TryCatch(tool[p], tail.body)
            IN /\ http' = [http EXCEPT ![p] = resp]
               /\ gc' = [gc EXCEPT ![p] = tail.gc]
               /\ ex' = [ex EXCEPT ![p] = tail.ex]
               /\ caught' = [caught EXCEPT ![p] =
                                IF tail.body.kind = "throw" THEN tail.body.error ELSE None]
               /\ writes' = writes \o [i \in 1..Len(tail.writes) |->
                                          Merge([proc |-> p], tail.writes[i])]
               /\ files' = ApplyWrites(files, tail.writes)
               /\ clock' = tail.clock
               /\ pc' = [pc EXCEPT ![p] = IF out.kind = "return" THEN "done" ELSE "faulted"]
               /\ envelope' = [envelope EXCEPT ![p] =
                                  IF out.kind = "return" THEN out.value ELSE None]
    /\ UNCHANGED <<tool, raw, args, reads, sent>>

\* one tool invocation against every answer of the endpoint
Next ==
    \E p \in {1} :
        \/ CallTool(p, Calls)
        \/ ValidateInput(p)
        \/ HandlerStart(p)
        \/ FetchRejects(p)
        \/ HttpResponse(p, Answers(MaxParts))

Spec == Init /\ [][Next]_vars

(***************************************************************************)
(* Two invocations of generate_image at once: each handler runs up to its  *)
(* await of fetch, and from the answer to its end, without interruption    *)
(***************************************************************************)
RaceCalls ==
    {[tool |-> GENERATE, args |-> x] :
        x \in Cross({Field("prompt", "a cat")}, Opt("output_dir", {".", "out"}))}

RaceAnswers ==
    {[status |-> 200, statusText |-> "OK",
      body |-> Parsed([modelVersion |-> "v", candidates |-> <<Candidate(ps)>>])] :
        ps \in {<<ImagePart("P")>>, <<ImagePart("Q")>>, <<TextPart("A")>>,
                <<TextPart("A"), ImagePart("P")>>}}
    \cup {[status |-> 429, statusText |-> "Too Many Requests", body |-> Unparsable]}

NextRace ==
    \E p \in Procs :
        \/ CallTool(p, RaceCalls)
        \/ ValidateInput(p)
        \/ HandlerStart(p)
        \/ FetchRejects(p)
        \/ HttpResponse(p, RaceAnswers)

SpecRace == Init /\ [][NextRace]_vars

(***************************************************************************)
(* extractResult on its own: the function applied to every response        *)
(***************************************************************************)
InitExtract ==
    /\ pc = [p \in Procs |-> IF p = 1 THEN "extract" ELSE "idle"]
    /\ tool = [p \in Procs |-> ""]
    /\ raw = [p \in Procs |-> None]
    /\ \E d \in {".", "out"} :
          args = [p \in Procs |-> IF p = 1 THEN [output_dir |-> d] ELSE None]
    /\ reads = [p \in Procs |-> 0]
    /\ \E r \in OkAnswers(MaxExtractParts) :
          http = [p \in Procs |-> IF p = 1 THEN r ELSE None]
    /\ gc = [p \in Procs |-> None]
    /\ ex = [p \in Procs |-> None]
    /\ caught = [p \in Procs |-> None]
    /\ envelope = [p \in Procs |-> None]
    /\ sent = <<>>
    /\ writes = <<>>
    /\ files = EmptyObject
    /\ clock = 0

\* extractResult(response, outputDir) is called and runs to its end
ExtractCall(p) ==
    /\ pc[p] = "extract"
    /\ \E adv \in [1..SavesOf(http[p].body.json) -> {0, 1}],
          failAt \in 0..SavesOf(http[p].body.json) :
        LET x == extractResult(http[p].body.json, args[p].output_dir, clock, adv, failAt)
        IN /\ ex' = [ex EXCEPT ![p] = x.outcome]
           /\ writes' = writes \o [i \in 1..Len(x.writes) |->
                                      Merge([proc |-> p], x.writes[i])]
           /\ files' = ApplyWrites(files, x.writes)
           /\ clock' = x.clock
    /\ pc' = [pc EXCEPT ![p] = "extracted"]
    /\ UNCHANGED <<tool, raw, args, reads, http, gc, caught, envelope, sent>>

NextExtract == \E p \in {1} : ExtractCall(p)

SpecExtract == InitExtract /\ [][NextExtract]_vars

(***************************************************************************)
(* Properties                                                              *)
(***************************************************************************)
IsErrorEnvelope(e) ==
    /\ DOMAIN e = {"isError", "content"}
    /\ e.isError = TRUE
    /\ Len(e.content) = 1
    /\ e.content[1].type = "text"

IsSuccessEnvelope(e) ==
    /\ DOMAIN e = {"content"}
    /\ Len(e.content) \in {1, 2}

ErrorText(e) == e.content[1].text

\* the prefix each operation puts before the message of an exception
ClaimedPrefix(t) ==
    CASE t = "generate_image" -> "Failed to generate image: "
      [] t = "edit_image" -> "Failed to edit image: "
      [] t = "compose_images" -> "Failed to compose images: "
      [] t = "describe_image" -> "Failed to describe image: "

\* C1: every invocation of a tool handler ends by returning one envelope, a
\* success envelope without isError or an error envelope with isError true
\* and a single text item; no exception leaves the handler; and when the
\* handler caught an exception (from reading an input file, from the HTTP
\* call or from extraction) the error text is the operation's "Failed to
\* ...: " prefix followed by the exception's message.
C1_OneEnvelopeNoEscape ==
    \A p \in Procs :
        /\ pc[p] # "faulted"
        /\ IsNone(envelope[p]) <=> pc[p] # "done"
        /\ pc[p] = "done" =>
              /\ IsErrorEnvelope(envelope[p]) \/ IsSuccessEnvelope(envelope[p])
              /\ ~IsNone(caught[p]) =>
                    /\ IsErrorEnvelope(envelope[p])
                    /\ ErrorText(envelope[p]) = ClaimedPrefix(tool[p]) \o caught[p].message

\* C1 witness: compose_images, whose extraction threw after the endpoint
\* answered 2xx, returned the error envelope made from that exception.
C1_Witness ==
    /\ pc[1] = "done"
    /\ tool[1] = "compose_images"
    /\ ~IsNone(ex[1]) /\ ex[1].kind = "throw"
    /\ IsErrorEnvelope(envelope[1])
    /\ ErrorText(envelope[1]) =
          "Failed to compose images: Cannot read properties of null (reading 'text')"

ClaimedNoImageMessage(t) ==
    CASE t = "generate_image" ->
           "No image was generated." \o " The model may have refused the prompt due to safety filters. Try rephrasing."
      [] t = "edit_image" ->
           "No image was generated." \o " The model may have refused the edit. Try a different instruction."
      [] t = "compose_images" ->
           "No image was generated" \o " from composition. Try a different instruction."

Answered2xx(p) == ~IsNone(http[p]) /\ http[p].status \in 200..299

\* C2: for generate_image, edit_image and compose_images, when the endpoint
\* answered 2xx and extraction returned without a saved image path, the
\* handler returns the error envelope with the operation's "No image was
\* generated..." message; a success envelope is returned only when
\* extraction returned a non-null saved image path.
C2_NoImageIsAnError ==
    \A p \in Procs :
        (pc[p] = "done" /\ tool[p] \in {"generate_image", "edit_image", "compose_images"}) =>
            /\ (Answered2xx(p) /\ ~IsNone(ex[p]) /\ ex[p].kind = "return"
                   /\ IsNull(ex[p].value.imagePath)) =>
                  /\ IsErrorEnvelope(envelope[p])
                  /\ ErrorText(envelope[p]) = ClaimedNoImageMessage(tool[p])
            /\ IsSuccessEnvelope(envelope[p]) =>
                  /\ Answered2xx(p)
                  /\ ~IsNone(ex[p]) /\ ex[p].kind = "return"
                  /\ ~IsNull(ex[p].value.imagePath)

\* C2 witness: generate_image got a 2xx answer whose first candidate has a
\* text part and no image part, and returned the "No image was generated."
\* error envelope.
C2_Witness ==
    /\ pc[1] = "done"
    /\ tool[1] = "generate_image"
    /\ Answered2xx(1)
    /\ http[1].body.parsable
    /\ "candidates" \in DOMAIN http[1].body.json
    /\ http[1].body.json.candidates = <<Candidate(<<TextPart("A")>>)>>
    /\ IsErrorEnvelope(envelope[1])
    /\ ErrorText(envelope[1]) =
          "No image was generated. The model may have refused the prompt due to safety filters. Try rephrasing."

Extracted(p) == pc[p] = "extracted"
ResponseOf(p) == http[p].body.json
HasNoCandidates(r) == ("candidates" \notin DOMAIN r) \/ r.candidates = <<>>

\* C3 as stated: without candidates, an error descriptor makes extractResult
\* fail with a GeminiApiError carrying the descriptor's code, 500 when the
\* code is unset, and its message; without an error descriptor it returns
\* {text: null, imagePath: null} and writes nothing.
C3_AsStated ==
    \A p \in Procs :
        (Extracted(p) /\ HasNoCandidates(ResponseOf(p))) =>
            /\ writes = <<>> /\ DOMAIN files = {}
            /\ IF "error" \in DOMAIN ResponseOf(p)
               THEN /\ ex[p].kind = "throw"
                    /\ ex[p].error.name = "GeminiApiError"
                    /\ ex[p].error.status =
                          (IF "code" \in DOMAIN ResponseOf(p).error
                           THEN ResponseOf(p).error.code ELSE 500)
                    /\ ex[p].error.message = ResponseOf(p).error.message
               ELSE ex[p] = [kind |-> "return",
                             value |-> [text |-> NullValue, imagePath |-> NullValue]]

\* C3, amended: as stated, with the code 500 also when the descriptor's code
\* is 0 (`code || 500`).
C3_ErrorDescriptorSurfaces ==
    \A p \in Procs :
        (Extracted(p) /\ HasNoCandidates(ResponseOf(p))) =>
            /\ writes = <<>> /\ DOMAIN files = {}
            /\ IF "error" \in DOMAIN ResponseOf(p)
               THEN /\ ex[p].kind = "throw"
                    /\ ex[p].error.name = "GeminiApiError"
                    /\ ex[p].error.status =
                          (IF "code" \in DOMAIN ResponseOf(p).error
                              /\ ResponseOf(p).error.code # 0
                           THEN ResponseOf(p).error.code ELSE 500)
                    /\ ex[p].error.message = ResponseOf(p).error.message
               ELSE ex[p] = [kind |-> "return",
                             value |-> [text |-> NullValue, imagePath |-> NullValue]]

\* C3 witness: error {code: 403, message: "blocked"} and no candidates made
\* extractResult throw a GeminiApiError with status 403 and message "blocked".
C3_Witness ==
    /\ Extracted(1)
    /\ "candidates" \notin DOMAIN ResponseOf(1)
    /\ "error" \in DOMAIN ResponseOf(1)
    /\ ResponseOf(1).error = [message |-> "blocked", code |-> 403]
    /\ ex[1] = [kind |-> "throw",
                error |-> [name |-> "GeminiApiError", status |-> 403, message |-> "blocked"]]

HasCandidates(r) == "candidates" \in DOMAIN r /\ Len(r.candidates) >= 1
PartsOfFirst(r) == r.candidates[1].content.parts

\* the texts of the parts that have a text field, in order
TextFields(parts) ==
    LET idx == {i \in 1..Len(parts) : "text" \in DOMAIN parts[i]}
        Nth(n) == CHOOSE i \in idx : Cardinality({j \in idx : j < i}) = n - 1
    IN [n \in 1..Cardinality(idx) |-> parts[Nth(n)].text]

\* the texts of the parts that have a non-empty text field, in order
NonEmptyTextFields(parts) ==
    LET idx == {i \in 1..Len(parts) : "text" \in DOMAIN parts[i] /\ parts[i].text # ""}
        Nth(n) == CHOOSE i \in idx : Cardinality({j \in idx : j < i}) = n - 1
    IN [n \in 1..Cardinality(idx) |-> parts[Nth(n)].text]

\* the strings of seq with "\n" between neighbours
RECURSIVE NewlineJoined(_, _)
NewlineJoined(seq, n) ==
    IF n = 0 THEN ""
    ELSE IF n = 1 THEN seq[1]
    ELSE NewlineJoined(seq, n - 1) \o "\n" \o seq[n]

\* C4 as stated: with at least one candidate, text is the "\n"-join, in
\* order, of the texts of the parts of the first candidate that have a text
\* field, and null exactly when no part has a text field.
C4_AsStated ==
    \A p \in Procs :
        (Extracted(p) /\ HasCandidates(ResponseOf(p)) /\ ex[p].kind = "return") =>
            LET texts == TextFields(PartsOfFirst(ResponseOf(p)))
            IN ex[p].value.text =
                  (IF Len(texts) = 0 THEN NullValue
                   ELSE [str |-> NewlineJoined(texts, Len(texts))])

\* C4, amended: text is the "\n"-join, in order, of the texts of the parts of
\* the first candidate that have a non-empty text field, and null exactly
\* when no part has a non-empty text field.
C4_TextIsJoinOfNonEmptyTexts ==
    \A p \in Procs :
        (Extracted(p) /\ HasCandidates(ResponseOf(p)) /\ ex[p].kind = "return") =>
            LET texts == NonEmptyTextFields(PartsOfFirst(ResponseOf(p)))
            IN ex[p].value.text =
                  (IF Len(texts) = 0 THEN NullValue
                   ELSE [str |-> NewlineJoined(texts, Len(texts))])

\* C4 witness: the parts "A", image, "B" gave the text "A\nB".
C4_Witness ==
    /\ Extracted(1)
    /\ HasCandidates(ResponseOf(1))
    /\ PartsOfFirst(ResponseOf(1)) = <<TextPart("A"), ImagePart("P"), TextPart("B")>>
    /\ ex[1].kind = "return"
    /\ ex[1].value.text = [str |-> "A\nB"]
    /\ ~IsNull(ex[1].value.imagePath)

\* the payloads of the parts that carry an inline image payload (inlineData
\* with non-empty data), in order, up to the first part that is null
RECURSIVE Payloads(_, _)
Payloads(parts, i) ==
    IF i > Len(parts) \/ "null" \in DOMAIN parts[i] THEN <<>>
    ELSE IF "inlineData" \in DOMAIN parts[i] /\ parts[i].inlineData.data # ""
    THEN <<parts[i].inlineData.data>> \o Payloads(parts, i + 1)
    ELSE Payloads(parts, i + 1)

\* C5: extractResult consumes the first candidate only: the files written
\* are, in part order, one per part of candidate 0 with an inline image
\* payload; the returned imagePath is the path of the last of these writes
\* (null when there is none); parts of later candidates cause no write and
\* add nothing to the text.
C5_FirstCandidateOnly ==
    \A p \in Procs :
        (Extracted(p) /\ HasCandidates(ResponseOf(p))
            /\ "content" \in DOMAIN ResponseOf(p).candidates[1]) =>
            LET pay == Payloads(PartsOfFirst(ResponseOf(p)), 1)
                texts == NonEmptyTextFields(PartsOfFirst(ResponseOf(p)))
            IN /\ Len(writes) <= Len(pay)
               /\ \A i \in 1..Len(writes) :
                     /\ writes[i].base64 = pay[i]
                     /\ writes[i].path \in DOMAIN files
               /\ ex[p].kind = "return" =>
                     /\ Len(writes) = Len(pay)
                     /\ ex[p].value.imagePath =
                           (IF Len(pay) = 0 THEN NullValue
                            ELSE [str |-> writes[Len(writes)].path])
                     /\ ex[p].value.text =
                           (IF Len(texts) = 0 THEN NullValue
                            ELSE [str |-> NewlineJoined(texts, Len(texts))])

\* C5 witness: a first candidate with the images P and Q, followed by a second
\* candidate with a text and an image: two files written, P then Q, under
\* different names, and imagePath names the second.
C5_Witness ==
    /\ Extracted(1)
    /\ HasCandidates(ResponseOf(1))
    /\ Len(ResponseOf(1).candidates) = 2
    /\ ex[1].kind = "return"
    /\ Len(writes) = 2
    /\ writes[1].base64 = "P" /\ writes[2].base64 = "Q"
    /\ writes[1].path # writes[2].path
    /\ ex[1].value.imagePath = [str |-> writes[2].path]
    /\ ex[1].value.text = NullValue

Status(p) == http[p].status

\* C6: when the endpoint answers 429, generateContent fails with a
\* GeminiApiError of status 429 whose message is the fixed rate-limit text,
\* whatever the body is (with message, with error.message, empty object,
\* unparsable).
C6_RateLimitMessageIsFixed ==
    \A p \in Procs :
        (pc[p] = "done" /\ ~IsNone(http[p]) /\ Status(p) = 429) =>
            gc[p] = [kind |-> "throw",
                     error |-> [name |-> "GeminiApiError", status |-> 429,
                                message |-> "Rate limit exceeded. Gemini image generation is limited to ~2-5 requests per minute. Try again in a moment."]]

\* C6 witness: a 429 answer whose body has both message and error.message
\* ended generateContent with the fixed text, and the handler with the error
\* envelope made from it.
C6_Witness ==
    /\ pc[1] = "done"
    /\ ~IsNone(http[1]) /\ Status(1) = 429
    /\ http[1].body = [parsable |-> TRUE,
                       json |-> [message |-> "quota exceeded",
                                 error |-> [message |-> "API key not valid"]]]
    /\ gc[1].kind = "throw" /\ gc[1].error.status = 429
    /\ tool[1] = "edit_image"
    /\ ErrorText(envelope[1]) =
          "Failed to edit image: Rate limit exceeded. Gemini image generation is limited to ~2-5 requests per minute. Try again in a moment."

IsErrorStatus(st) == ~(st \in 200..299)

\* the error body as an object: an unparsable body counts as {}
BodyObject(p) == IF http[p].body.parsable THEN http[p].body.json ELSE [k \in {} |-> k]

\* <m> as stated: body.message if present, else body.error.message if
\* present, else the status text
MessageIfPresent(body, statusText) ==
    IF "message" \in DOMAIN body THEN body.message
    ELSE IF "error" \in DOMAIN body /\ "message" \in DOMAIN body.error
         THEN body.error.message
    ELSE statusText

\* <m>, amended: body.message if present and not empty, else
\* body.error.message if present and not empty, else the status text
MessageIfNonEmpty(body, statusText) ==
    IF "message" \in DOMAIN body /\ body.message # "" THEN body.message
    ELSE IF "error" \in DOMAIN body /\ "message" \in DOMAIN body.error
            /\ body.error.message # ""
         THEN body.error.message
    ELSE statusText

\* C7 as stated: for a non-2xx status other than 429, generateContent fails
\* with a GeminiApiError carrying the status and the message "Gemini API
\* error (<status>): <m>", <m> being body.message if present, else
\* body.error.message if present, else the status text (an unparsable body
\* counts as {}); no response is returned.
C7_AsStated ==
    \A p \in Procs :
        (pc[p] = "done" /\ ~IsNone(http[p]) /\ IsErrorStatus(Status(p)) /\ Status(p) # 429) =>
            gc[p] = [kind |-> "throw",
                     error |-> [name |-> "GeminiApiError", status |-> Status(p),
                                message |-> "Gemini API error (" \o ToString(Status(p)) \o "): "
                                    \o MessageIfPresent(BodyObject(p), http[p].statusText)]]

\* C7, amended: as stated, with <m> being body.message if present and not
\* empty, else body.error.message if present and not empty, else the status
\* text.
C7_ErrorMessageDerivation ==
    \A p \in Procs :
        (pc[p] = "done" /\ ~IsNone(http[p]) /\ IsErrorStatus(Status(p)) /\ Status(p) # 429) =>
            gc[p] = [kind |-> "throw",
                     error |-> [name |-> "GeminiApiError", status |-> Status(p),
                                message |-> "Gemini API error (" \o ToString(Status(p)) \o "): "
                                    \o MessageIfNonEmpty(BodyObject(p), http[p].statusText)]]

\* C7 witness: a 503 answer whose body has message and error.message failed
\* with status 503 and the message built from body.message.
C7_Witness ==
    /\ pc[1] = "done"
    /\ ~IsNone(http[1]) /\ Status(1) = 503
    /\ http[1].body = [parsable |-> TRUE,
                       json |-> [message |-> "quota exceeded",
                                 error |-> [message |-> "API key not valid"]]]
    /\ gc[1] = [kind |-> "throw",
                error |-> [name |-> "GeminiApiError", status |-> 503,
                           message |-> "Gemini API error (503): quota exceeded"]]

ConfigOf(i) == sent[i].request.body.generationConfig
SenderTool(i) == tool[sent[i].proc]
SenderArgs(i) == args[sent[i].proc]
\* what the handler supplied to generateContent
SuppliedAspect(i) == SenderTool(i) # "describe_image" /\ "aspect_ratio" \in DOMAIN SenderArgs(i)
SuppliedSize(i) == SenderTool(i) # "describe_image"
AsksImage(i) == \E k \in 1..Len(ConfigOf(i).responseModalities) :
                    ConfigOf(i).responseModalities[k] = "IMAGE"

\* C8: in every request generateContent sends, generationConfig has
\* responseModalities; it has imageConfig exactly when IMAGE is among the
\* modalities and aspectRatio or imageSize was supplied; imageConfig then
\* holds the supplied ones of aspectRatio and imageSize with their values and
\* nothing else; a describe_image request asks for TEXT only and has no
\* imageConfig.
C8_ImageConfigOnlyWhenSupplied ==
    \A i \in 1..Len(sent) :
        /\ "responseModalities" \in DOMAIN ConfigOf(i)
        /\ DOMAIN ConfigOf(i) \subseteq {"responseModalities", "imageConfig"}
        /\ "imageConfig" \in DOMAIN ConfigOf(i)
              <=> (AsksImage(i) /\ (SuppliedAspect(i) \/ SuppliedSize(i)))
        /\ "imageConfig" \in DOMAIN ConfigOf(i) =>
              /\ DOMAIN ConfigOf(i).imageConfig =
                    {k \in {"aspectRatio"} : SuppliedAspect(i)}
                       \cup {k \in {"imageSize"} : SuppliedSize(i)}
              /\ SuppliedAspect(i) =>
                    ConfigOf(i).imageConfig.aspectRatio = SenderArgs(i).aspect_ratio
              /\ SuppliedSize(i) =>
                    ConfigOf(i).imageConfig.imageSize = SenderArgs(i).image_size
        /\ SenderTool(i) = "describe_image" =>
              /\ ConfigOf(i).responseModalities = <<"TEXT">>
              /\ "imageConfig" \notin DOMAIN ConfigOf(i)

\* C8 witness: an edit_image request without aspect ratio was sent with an
\* imageConfig that holds imageSize alone.
C8_Witness ==
    /\ Len(sent) = 1
    /\ tool[1] = "edit_image"
    /\ "aspect_ratio" \notin DOMAIN args[1]
    /\ ConfigOf(1) = [responseModalities |-> <<"TEXT", "IMAGE">>,
                      imageConfig |-> [imageSize |-> "4K"]]

SentBy(p) == {i \in 1..Len(sent) : sent[i].proc = p}
WrittenBy(p) == {i \in 1..Len(writes) : writes[i].proc = p}
HandlerRan(p) == pc[p] \in {"validated", "awaiting", "done", "faulted"}

\* a compose_images call that is valid in everything but the number of paths
OtherwiseValidCompose(a) ==
    /\ "image_paths" \in DOMAIN a
    /\ "instruction" \in DOMAIN a /\ a.instruction # ""
    /\ "model" \in DOMAIN a => a.model \in {"flash", "pro"}
    /\ "aspect_ratio" \in DOMAIN a => a.aspect_ratio \in ASPECT_RATIO_ENUM
    /\ "image_size" \in DOMAIN a => a.image_size \in IMAGE_SIZE_ENUM

ClaimedUrls ==
    {"https://generativelanguage.googleapis.com/v1beta/models/gemini-2.5-flash-image:generateContent",
     "https://generativelanguage.googleapis.com/v1beta/models/gemini-3-pro-image-preview:generateContent"}

\* C10: no request is sent whose model identifier is not one of the two of
\* the table: a call with another model choice stops at validation, the
\* handler runs only with "flash" or "pro", and each request goes to the
\* identifier the table has for the handler's choice; the two identifiers
\* differ.
C10_OnlyTableModelsAreRequested ==
    /\ \A i \in 1..Len(sent) :
          /\ sent[i].request.url \in ClaimedUrls
          /\ sent[i].request.url =
                (IF SenderArgs(i).model = "flash"
                 THEN "https://generativelanguage.googleapis.com/v1beta/models/gemini-2.5-flash-image:generateContent"
                 ELSE "https://generativelanguage.googleapis.com/v1beta/models/gemini-3-pro-image-preview:generateContent")
    /\ \A p \in Procs :
          /\ HandlerRan(p) => args[p].model \in {"flash", "pro"}
          /\ (pc[p] = "rejected" /\ "model" \in DOMAIN raw[p]
                 /\ ~(raw[p].model \in {"flash", "pro"})) => SentBy(p) = {}

\* C10 witness: a generate_image call with the model "ultra", valid otherwise,
\* was rejected and nothing was sent.
C10_Witness ==
    /\ pc[1] = "rejected"
    /\ tool[1] = "generate_image"
    /\ raw[1] = [prompt |-> "a cat", model |-> "ultra"]
    /\ sent = <<>>

\* whether a 2xx answer carries an inline image in its first candidate
AnswerHasImage(p) ==
    /\ Answered2xx(p) /\ http[p].body.parsable
    /\ HasCandidates(http[p].body.json)
    /\ "content" \in DOMAIN http[p].body.json.candidates[1]
    /\ Len(Payloads(PartsOfFirst(http[p].body.json), 1)) > 0

\* C12: describe_image is read-only: whatever the endpoint answers (also
\* parts with inline image data) the invocation writes no file, its request
\* asks for the TEXT modality only, and the envelope it returns has text
\* items only; when the answer has no candidates the envelope is the error
\* "No description was generated.".
C12_DescribeIsReadOnly ==
    \A p \in Procs :
        tool[p] = "describe_image" =>
            /\ WrittenBy(p) = {}
            /\ \A i \in SentBy(p) :
                  sent[i].request.body.generationConfig.responseModalities = <<"TEXT">>
            /\ pc[p] = "done" =>
                  /\ \A k \in 1..Len(envelope[p].content) :
                        envelope[p].content[k].type = "text"
                  /\ (Answered2xx(p) /\ http[p].body.parsable
                         /\ HasNoCandidates(http[p].body.json)) =>
                        envelope[p] = [isError |-> TRUE,
                                       content |-> <<[type |-> "text",
                                                      text |-> "No description was generated."]>>]

\* C12 witness: describe_image got an answer with the text "A" and the image
\* P, returned a success envelope with one text item, and no file exists.
C12_Witness ==
    /\ pc[1] = "done"
    /\ tool[1] = "describe_image"
    /\ AnswerHasImage(1)
    /\ PartsOfFirst(http[1].body.json) = <<TextPart("A"), ImagePart("P")>>
    /\ IsSuccessEnvelope(envelope[1])
    /\ Len(envelope[1].content) = 1
    /\ envelope[1].content[1].text.json.description = "A"
    /\ writes = <<>> /\ DOMAIN files = {}

IsImageTool(p) == tool[p] \in {"generate_image", "edit_image", "compose_images"}
\* the items of a success envelope of an image tool
ImageItem(p) == envelope[p].content[1]
SavedTo(p) == envelope[p].content[2].text.json.saved_to.str

\* C13: in every success envelope of generate_image, edit_image and
\* compose_images the inline image item carries the payload that was written
\* to the file saved_to names, also when the first candidate has more than
\* one inline image part.
C13_EnvelopeImageIsSavedImage ==
    \A p \in Procs :
        (pc[p] = "done" /\ IsImageTool(p) /\ IsSuccessEnvelope(envelope[p])) =>
            /\ ImageItem(p).type = "image"
            /\ SavedTo(p) \in DOMAIN files
            /\ files[SavedTo(p)] = "bytes(" \o ImageItem(p).data \o ")"

\* C14: when generate_image, edit_image or compose_images returns an error
\* envelope the invocation has written no file; a file an invocation wrote
\* is named by the saved_to of the success envelope it returns.
C14_ErrorEnvelopeLeavesNoFile ==
    \A p \in Procs :
        (pc[p] = "done" /\ IsImageTool(p)) =>
            /\ IsErrorEnvelope(envelope[p]) => WrittenBy(p) = {}
            /\ \A i \in WrittenBy(p) :
                  /\ IsSuccessEnvelope(envelope[p])
                  /\ SavedTo(p) = writes[i].path

\* the directory join() resolves an output_dir to
NormDir(d) == IF d \in {"", "."} THEN "." ELSE d
DirOfWrite(i) == NormDir(args[writes[i].proc].output_dir)
\* the last write made to a path
LastWriteTo(path) ==
    CHOOSE i \in 1..Len(writes) :
        /\ writes[i].path = path
        /\ \A j \in 1..Len(writes) : writes[j].path = path => j <= i

\* C11: two invocations that save into the same output directory save to the
\* same path exactly when both saves read the same millisecond; the path is
\* made of the directory and the timestamp only (no existence check, no
\* dedup), a later write to a path replaces what an earlier one left, and
\* every success envelope still names the path its invocation wrote, so that
\* after a collision both envelopes name one file that holds the later
\* invocation's image only.
C11_SamePathIffSameMillisecond ==
    /\ \A i, j \in 1..Len(writes) :
          (writes[i].proc # writes[j].proc /\ DirOfWrite(i) = DirOfWrite(j)) =>
              (writes[i].path = writes[j].path
                  <=> writes[i].timestamp = writes[j].timestamp)
    /\ \A i \in 1..Len(writes) :
          writes[i].path = Join(args[writes[i].proc].output_dir,
                                "nano-banana-" \o ToString(writes[i].timestamp) \o ".png")
    /\ DOMAIN files = {writes[i].path : i \in 1..Len(writes)}
    /\ \A path \in DOMAIN files : files[path] = writes[LastWriteTo(path)].bytes
    /\ \A p \in Procs :
          (pc[p] = "done" /\ IsImageTool(p) /\ IsSuccessEnvelope(envelope[p])) =>
              \E i \in WrittenBy(p) :
                  /\ SavedTo(p) = writes[i].path
                  /\ \A j \in WrittenBy(p) : j <= i

\* both invocations saved in the same millisecond into the same directory
C11_Witness ==
    /\ pc[1] = "done" /\ pc[2] = "done"
    /\ IsSuccessEnvelope(envelope[1]) /\ IsSuccessEnvelope(envelope[2])
    /\ Len(writes) = 2 /\ writes[1].proc # writes[2].proc
    /\ writes[1].timestamp = writes[2].timestamp
    /\ SavedTo(1) = SavedTo(2)
    /\ ImageItem(1).data # ImageItem(2).data
    /\ DOMAIN files = {SavedTo(1)}
    /\ files[SavedTo(1)] = writes[2].bytes
    /\ files[SavedTo(1)] # writes[1].bytes

====
